---------------------------- MODULE Spec2Model ----------------------------
(***************************************************************************)
(* Employee record store (src/manager.py): a flat CSV backing file with    *)
(* load-all, write-temp-then-move save, and add / update / delete by id.   *)
(*                                                                         *)
(* Text is modelled character by character: a str is a sequence of         *)
(* one-character strings, a file's content is a str, a dict is a function  *)
(* from its keys to strs.                                                  *)
(***************************************************************************)
EXTENDS Integers, Sequences, FiniteSets, TLC

VARIABLES
    file,   \* content of the backing file DATA_FILE, or Absent
    tmp,    \* content of the temp file made by mkstemp, or Absent
    last,   \* the last completed Store call: its arguments, result and the file before it
    pc,     \* position of the caller inside atomic_save_employees (stepwise runs)
    job,    \* the employees list that caller is saving
    written,\* how many rows that caller's writer loop has written
    old,    \* the backing file's content when that save began
    seen,   \* what a concurrent reader's latest load_employees returned
    callers,\* each concurrent caller's Store call: its arguments, what it loaded, its result
    app    \* the EmployeeApp window: selected_id, entries, listbox, dept_values, last event

vars == <<file, tmp, last, pc, job, written, old, seen, callers, app>>

-----------------------------------------------------------------------------
(* Characters and strings *)

SP == " "
COMMA == ","
DQ == "\""
CR == "\r"
LF == "\n"

\* The characters str.strip() removes, among those modelled.
Whitespace == {SP, CR, LF}

\* A file that does not exist.
Absent == <<"<absent>">>

\* Python's None where a str is expected: equal to no str.
NoneStr == <<"<None>">>

\* Python's None where a dict is expected.
NoneDict == [none |-> TRUE]

FIELDNAMES == <<"id", "name", "department", "role">>

NFields == 4

RECURSIVE LStrip(_)
LStrip(s) ==
    IF s # <<>> /\ Head(s) \in Whitespace THEN LStrip(Tail(s)) ELSE s

RECURSIVE RStrip(_)
RStrip(s) ==
    IF s # <<>> /\ s[Len(s)] \in Whitespace
    THEN RStrip(SubSeq(s, 1, Len(s) - 1))
    ELSE s

\* str.strip()
Strip(s) == RStrip(LStrip(s))

\* dict.get(k, default)
Get(e, k, default) == IF k \in DOMAIN e THEN e[k] ELSE default

\* dict.get(k): None when the key is missing
GetOpt(e, k) == Get(e, k, NoneStr)

-----------------------------------------------------------------------------
(* csv.writer, dialect excel: QUOTE_MINIMAL, doublequote, lineterminator   *)
(* "\r\n"                                                                  *)

\* Quoting that overlooks the characters of the line terminator.
NeedsQuoteNoLineBreak(s) == \E i \in 1..Len(s) : s[i] \in {COMMA, DQ}

\* A field is quoted when it holds the delimiter, the quote character or a
\* character of the line terminator.
NeedsQuote(s) == \E i \in 1..Len(s) : s[i] \in {COMMA, DQ, CR, LF}

RECURSIVE DoubleQuotes(_)
DoubleQuotes(s) ==
    IF s = <<>> THEN <<>>
    ELSE (IF Head(s) = DQ THEN <<DQ, DQ>> ELSE <<Head(s)>>) \o DoubleQuotes(Tail(s))

\* A quoted field written without doubling the quotes inside it.
WriteFieldUndoubled(s) ==
    IF NeedsQuote(s) THEN <<DQ>> \o s \o <<DQ>> ELSE s

WriteField(s) ==
    IF NeedsQuote(s) THEN <<DQ>> \o DoubleQuotes(s) \o <<DQ>> ELSE s

RECURSIVE JoinFields(_)
JoinFields(fs) ==
    IF Len(fs) = 1 THEN WriteField(fs[1])
    ELSE WriteField(Head(fs)) \o <<COMMA>> \o JoinFields(Tail(fs))

\* writer.writerow(fields), for a row of at least two fields
WriteRow(fs) == JoinFields(fs) \o <<CR, LF>>

\* The row atomic_save_employees writes for one employee.
EmployeeRow(e) ==
    WriteRow(<<Get(e, "id", <<>>), Get(e, "name", <<>>),
               Get(e, "department", <<>>), Get(e, "role", <<>>)>>)

\* The text the writer loop produces for the first n employees.
RECURSIVE WriteRows(_, _)
WriteRows(emps, n) ==
    IF n = 0 THEN <<>> ELSE WriteRows(emps, n - 1) \o EmployeeRow(emps[n])

WriteAll(emps) == WriteRows(emps, Len(emps))

-----------------------------------------------------------------------------
(* csv.reader over open(path, newline=''), dialect excel, not strict       *)

\* Iterating a text file opened with newline='': lines end at "\n", "\r" or
\* "\r\n", and keep their terminator.
RECURSIVE SplitFrom(_, _, _, _)
SplitFrom(text, i, cur, acc) ==
    IF i > Len(text) THEN (IF cur = <<>> THEN acc ELSE Append(acc, cur))
    ELSE IF text[i] = LF THEN SplitFrom(text, i + 1, <<>>, Append(acc, Append(cur, LF)))
    ELSE IF text[i] = CR THEN
        IF i < Len(text) /\ text[i + 1] = LF
        THEN SplitFrom(text, i + 2, <<>>, Append(acc, cur \o <<CR, LF>>))
        ELSE SplitFrom(text, i + 1, <<>>, Append(acc, Append(cur, CR)))
    ELSE SplitFrom(text, i + 1, Append(cur, text[i]), acc)

SplitLines(text) == SplitFrom(text, 1, <<>>, <<>>)

\* The end-of-line mark the reader feeds its parser after each line.
EOL == "<EOL>"

\* parse_reset
ParseReset == [state |-> "START_RECORD", field |-> <<>>, fields |-> <<>>]

\* parse_save_field
SaveField(p) == [p EXCEPT !.fields = Append(p.fields, p.field), !.field = <<>>]

AddChar(p, c) == [p EXCEPT !.field = Append(p.field, c)]

AfterNewline(c) == IF c = EOL THEN "START_RECORD" ELSE "EAT_CRNL"

\* START_FIELD (START_RECORD falls through to it on an ordinary character)
StartField(p, c) ==
    IF c \in {LF, CR, EOL} THEN [SaveField(p) EXCEPT !.state = AfterNewline(c)]
    ELSE IF c = DQ THEN [p EXCEPT !.state = "IN_QUOTED_FIELD"]
    ELSE IF c = COMMA THEN [SaveField(p) EXCEPT !.state = "START_FIELD"]
    ELSE [AddChar(p, c) EXCEPT !.state = "IN_FIELD"]

\* parse_process_char
ProcessChar(p, c) ==
    CASE p.state = "START_RECORD" ->
            IF c = EOL THEN p
            ELSE IF c \in {LF, CR} THEN [p EXCEPT !.state = "EAT_CRNL"]
            ELSE StartField(p, c)
      [] p.state = "START_FIELD" -> StartField(p, c)
      [] p.state = "IN_FIELD" ->
            IF c \in {LF, CR, EOL} THEN [SaveField(p) EXCEPT !.state = AfterNewline(c)]
            ELSE IF c = COMMA THEN [SaveField(p) EXCEPT !.state = "START_FIELD"]
            ELSE AddChar(p, c)
      [] p.state = "IN_QUOTED_FIELD" ->
            IF c = EOL THEN p
            ELSE IF c = DQ THEN [p EXCEPT !.state = "QUOTE_IN_QUOTED_FIELD"]
            ELSE AddChar(p, c)
      [] p.state = "QUOTE_IN_QUOTED_FIELD" ->
            IF c = DQ THEN [AddChar(p, c) EXCEPT !.state = "IN_QUOTED_FIELD"]
            ELSE IF c = COMMA THEN [SaveField(p) EXCEPT !.state = "START_FIELD"]
            ELSE IF c \in {LF, CR, EOL} THEN [SaveField(p) EXCEPT !.state = AfterNewline(c)]
            ELSE [AddChar(p, c) EXCEPT !.state = "IN_FIELD"]
      [] p.state = "EAT_CRNL" ->
            IF c \in {LF, CR} THEN p
            ELSE IF c = EOL THEN [p EXCEPT !.state = "START_RECORD"]
            ELSE [p EXCEPT !.state = "ERROR"]
      [] OTHER -> p

\* One line fed to the parser, then the end-of-line mark.
RECURSIVE ProcessLine(_, _, _)
ProcessLine(p, line, i) ==
    IF i > Len(line) THEN ProcessChar(p, EOL)
    ELSE ProcessLine(ProcessChar(p, line[i]), line, i + 1)

\* Reader.__next__ iterated to exhaustion: a row is complete when the parser
\* is back in START_RECORD after a line; at the end of input an open quoted
\* field is saved and its row returned.
RECURSIVE ReadRows(_, _, _, _)
\* q is the parser after the line li.
AfterLine(lines, li, q, rows) ==
    IF q.state = "START_RECORD"
    THEN ReadRows(lines, li + 1, ParseReset, Append(rows, q.fields))
    ELSE ReadRows(lines, li + 1, q, rows)

ReadRows(lines, li, p, rows) ==
    IF li > Len(lines)
    THEN IF p.field # <<>> \/ p.state = "IN_QUOTED_FIELD"
         THEN Append(rows, SaveField(p).fields)
         ELSE rows
    ELSE AfterLine(lines, li, ProcessLine(p, lines[li], 1), rows)

\* list(csv.reader(f)) for a file holding text
CsvRows(text) == ReadRows(SplitLines(text), 1, ParseReset, <<>>)

-----------------------------------------------------------------------------
(* load_employees and atomic_save_employees as functions of the file text  *)

\* An absent file left absent.
EnsureDataFileNoCreate(f) == f

\* ensure_data_file: an absent file is created empty.
EnsureDataFile(f) == IF f = Absent THEN <<>> ELSE f

\* Padding that repeats the row's last field.
PartsPaddedWithLast(row) ==
    [i \in 1..(IF Len(row) < NFields THEN NFields ELSE Len(row)) |->
        IF i <= Len(row) THEN Strip(row[i]) ELSE Strip(row[Len(row)])]

\* [p.strip() for p in row], padded with "" to four parts
Parts(row) ==
    [i \in 1..(IF Len(row) < NFields THEN NFields ELSE Len(row)) |->
        IF i <= Len(row) THEN Strip(row[i]) ELSE <<>>]

\* dict(zip(FIELDNAMES, parts[:4]))
ZipFields(parts) ==
    [k \in {FIELDNAMES[i] : i \in 1..NFields} |->
        parts[CHOOSE i \in 1..NFields : FIELDNAMES[i] = k]]

\* The employee load_employees makes of one non-empty row.
EmployeeOf(row) == ZipFields(Parts(row))

RECURSIVE EmployeesOf(_)
EmployeesOf(rows) ==
    IF rows = <<>> THEN <<>>
    ELSE IF Head(rows) = <<>> THEN EmployeesOf(Tail(rows))
    ELSE <<EmployeeOf(Head(rows))>> \o EmployeesOf(Tail(rows))

\* The list load_employees returns when the backing file is f.
LoadEmployees(f) == EmployeesOf(CsvRows(EnsureDataFile(f)))

\* The backing file after an uninterrupted atomic_save_employees(emps): the
\* temp file holds every row, is moved over the backing file, and is gone.
AtomicSaveEmployees(emps) == WriteAll(emps)

-----------------------------------------------------------------------------
(* find_employee_by_id, add_employee, delete_employee, update_employee     *)

\* Truth value of a find_employee_by_id result: None and {} are false.
Truthy(d) == d # NoneDict /\ DOMAIN d # {}

\* The first e with e.get('id') == emp_id, else None.
RECURSIVE FindFrom(_, _, _)
FindFrom(emp_id, employees, i) ==
    IF i > Len(employees) THEN NoneDict
    ELSE IF GetOpt(employees[i], "id") = emp_id THEN employees[i]
    ELSE FindFrom(emp_id, employees, i + 1)

FindEmployeeById(emp_id, employees) == FindFrom(emp_id, employees, 1)

\* What a call returns and does: the (ok, msg) pair, whether it saved, and the
\* backing file it leaves.
Outcome(ok, msg, saved, f) == [ok |-> ok, msg |-> msg, saved |-> saved, file |-> f]

\* add_employee with the new record put first instead of appended.
AddEmployeeAtFront(employees, emp_dict, f) ==
    IF Truthy(FindEmployeeById(Strip(Get(emp_dict, "id", <<>>)), employees))
    THEN Outcome(FALSE, "ID already exists", FALSE, EnsureDataFile(f))
    ELSE Outcome(TRUE, "Added", TRUE, AtomicSaveEmployees(<<emp_dict>> \o employees))

\* add_employee without its lookup of the id.
AddEmployeeUnchecked(employees, emp_dict, f) ==
    Outcome(TRUE, "Added", TRUE, AtomicSaveEmployees(Append(employees, emp_dict)))

\* add_employee on the file f, from employees = load_employees(path) on.
AddEmployee(employees, emp_dict, f) ==
    IF Truthy(FindEmployeeById(Strip(Get(emp_dict, "id", <<>>)), employees))
    THEN Outcome(FALSE, "ID already exists", FALSE, EnsureDataFile(f))
    ELSE Outcome(TRUE, "Added", TRUE, AtomicSaveEmployees(Append(employees, emp_dict)))

\* [e for e in employees if e.get('id') != emp_id]
Without(employees, emp_id) ==
    SelectSeq(employees, LAMBDA e : GetOpt(e, "id") # emp_id)

\* delete_employee from the length comparison on; kept is the filtered list.
DeleteKeeping(employees, kept, f) ==
    IF Len(kept) = Len(employees)
    THEN Outcome(FALSE, "ID not found", FALSE, EnsureDataFile(f))
    ELSE Outcome(TRUE, "Deleted", TRUE, AtomicSaveEmployees(kept))

\* delete_employee on the file f, from employees = load_employees(path) on.
DeleteEmployee(employees, emp_id, f) ==
    DeleteKeeping(employees, Without(employees, emp_id), f)

\* The index at which update_employee's loop stops: the first i with
\* employees[i].get('id') == emp_id, or 0 when the loop runs out.
FirstWithId(employees, emp_id) ==
    IF \E i \in 1..Len(employees) : GetOpt(employees[i], "id") = emp_id
    THEN CHOOSE i \in 1..Len(employees) :
            /\ GetOpt(employees[i], "id") = emp_id
            /\ \A j \in 1..(i - 1) : GetOpt(employees[j], "id") # emp_id
    ELSE 0

\* The loop body without its lookup of new_id.
UpdateAtUnchecked(employees, i, emp_id, new_id, updated_dict, f) ==
    Outcome(TRUE, "Updated", TRUE,
            AtomicSaveEmployees([employees EXCEPT ![i] = updated_dict]))

\* The loop body at the matching index i, with new_id computed.
UpdateAt(employees, i, emp_id, new_id, updated_dict, f) ==
    IF new_id # emp_id /\ Truthy(FindEmployeeById(new_id, employees))
    THEN Outcome(FALSE, "Target ID already exists", FALSE, EnsureDataFile(f))
    ELSE Outcome(TRUE, "Updated", TRUE,
                 AtomicSaveEmployees([employees EXCEPT ![i] = updated_dict]))

\* update_employee without its test of found.
UpdateInFoundUntested(employees, i, emp_id, updated_dict, f) ==
    IF i = 0
    THEN Outcome(TRUE, "Updated", TRUE, AtomicSaveEmployees(employees))
    ELSE Outcome(TRUE, "Updated", TRUE,
                 AtomicSaveEmployees([employees EXCEPT ![i] = updated_dict]))

\* update_employee from the end of its loop on; i is where the loop stopped.
UpdateIn(employees, i, emp_id, updated_dict, f) ==
    IF i = 0
    THEN Outcome(FALSE, "ID not found", FALSE, EnsureDataFile(f))
    ELSE UpdateAt(employees, i, emp_id, Strip(Get(updated_dict, "id", emp_id)),
                  updated_dict, f)

\* update_employee on the file f, from employees = load_employees(path) on.
UpdateEmployee(employees, emp_id, updated_dict, f) ==
    UpdateIn(employees, FirstWithId(employees, emp_id), emp_id, updated_dict, f)

-----------------------------------------------------------------------------
(* gui.py: text helpers of EmployeeApp                                     *)

\* Characters str.isdigit accepts: the decimal digits, and digit characters
\* that are not decimal, such as the superscript two, for which SUP2 stands.
SUP2 == "<superscript 2>"

DecimalDigits == {"0", "1", "2", "3", "4", "5", "6", "7", "8", "9"}

DigitChars == DecimalDigits \cup {SUP2}

\* str.isdigit
IsDigit(s) == s # <<>> /\ \A i \in 1..Len(s) : s[i] \in DigitChars

\* Length the id must have.
IdLen == 6

\* Letters typed, lower and upper case.
LowerLetters == <<"a", "b", "h", "r">>

UpperLetters == <<"A", "B", "H", "R">>

UpperChar(c) ==
    IF \E i \in 1..Len(LowerLetters) : LowerLetters[i] = c
    THEN UpperLetters[CHOOSE i \in 1..Len(LowerLetters) : LowerLetters[i] = c]
    ELSE c

LowerChar(c) ==
    IF \E i \in 1..Len(UpperLetters) : UpperLetters[i] = c
    THEN LowerLetters[CHOOSE i \in 1..Len(UpperLetters) : UpperLetters[i] = c]
    ELSE c

\* str.upper, str.lower
Upper(s) == [i \in 1..Len(s) |-> UpperChar(s[i])]

Lower(s) == [i \in 1..Len(s) |-> LowerChar(s[i])]

\* str.capitalize
Capitalize(w) == [i \in 1..Len(w) |-> IF i = 1 THEN UpperChar(w[i]) ELSE LowerChar(w[i])]

\* str.split(): the words between runs of whitespace
RECURSIVE WordsFrom(_, _, _, _)
WordsFrom(s, i, cur, acc) ==
    IF i > Len(s) THEN (IF cur = <<>> THEN acc ELSE Append(acc, cur))
    ELSE IF s[i] \in Whitespace
         THEN WordsFrom(s, i + 1, <<>>, IF cur = <<>> THEN acc ELSE Append(acc, cur))
         ELSE WordsFrom(s, i + 1, Append(cur, s[i]), acc)

Words(s) == WordsFrom(s, 1, <<>>, <<>>)

\* " ".join(out)
RECURSIVE JoinWords(_)
JoinWords(ws) ==
    IF ws = <<>> THEN <<>>
    ELSE IF Len(ws) = 1 THEN ws[1]
    ELSE ws[1] \o <<SP>> \o JoinWords(Tail(ws))

\* special
Special ==
    {<<"I", "T">>, <<"H", "R">>, <<"C", "E", "O">>, <<"C", "T", "O">>,
     <<"C", "F", "O">>, <<"U", "I">>, <<"U", "X">>}

\* The loop of smart_title over the words.
TitleWords(words) ==
    [i \in 1..Len(words) |->
        IF Upper(words[i]) \in Special THEN Upper(words[i]) ELSE Capitalize(words[i])]

\* smart_title
SmartTitle(text) == JoinWords(TitleWords(Words(Strip(text))))

\* sep occurs in s at position i.
OccursAt(s, sep, i) ==
    /\ i + Len(sep) - 1 <= Len(s)
    /\ \A k \in 1..Len(sep) : s[i + k - 1] = sep[k]

\* Leftmost position at or after i where sep occurs in s, 0 when there is none.
RECURSIVE FindFromPos(_, _, _)
FindFromPos(s, sep, i) ==
    IF i + Len(sep) - 1 > Len(s) THEN 0
    ELSE IF OccursAt(s, sep, i) THEN i
    ELSE FindFromPos(s, sep, i + 1)

\* sub in s
Contains(s, sub) == sub = <<>> \/ FindFromPos(s, sub, 1) > 0

\* s.split(sep, 1)
SplitOnce(s, sep) ==
    IF FindFromPos(s, sep, 1) = 0 THEN <<s>>
    ELSE <<SubSeq(s, 1, FindFromPos(s, sep, 1) - 1),
           SubSeq(s, FindFromPos(s, sep, 1) + Len(sep), Len(s))>>

\* s.split(sep)
RECURSIVE SplitAll(_, _)
SplitAll(s, sep) ==
    IF FindFromPos(s, sep, 1) = 0 THEN <<s>>
    ELSE <<SubSeq(s, 1, FindFromPos(s, sep, 1) - 1)>>
         \o SplitAll(SubSeq(s, FindFromPos(s, sep, 1) + Len(sep), Len(s)), sep)

\* f"{emp['id']} - {emp['name']} ({emp['department']}) | {emp['role']}"
FormatRow(emp) ==
    emp.id \o <<SP, "-", SP>> \o emp.name \o <<SP, "(">> \o emp.department
        \o <<")", SP, "|", SP>> \o emp.role

\* The listbox rows for a list of employees.
Rows(employees) == [k \in 1..Len(employees) |-> FormatRow(employees[k])]

\* No handler has run yet.
NoEvent ==
    [handler |-> "none", sel |-> NoneStr, call |-> "none", id |-> NoneStr,
     rec |-> NoneDict, ok |-> FALSE]

\* What a handler did: the selected_id it found, the Store call it made if
\* any, that call's arguments and result.
Event(handler, sel, call, emp_id, rec, ok) ==
    [handler |-> handler, sel |-> sel, call |-> call, id |-> emp_id,
     rec |-> rec, ok |-> ok]

\* dept_values as __init__ sets it
DeptValues ==
    <<<<"H", "R">>, <<"I", "T">>, <<"F", "i", "n", "a", "n", "c", "e">>,
      <<"S", "a", "l", "e", "s">>,
      <<"E", "n", "g", "i", "n", "e", "e", "r", "i", "n", "g">>>>

\* The window after __init__ over an empty store: nothing selected, empty
\* entries, an empty listbox.
NewApp ==
    [selected_id |-> NoneStr, entry_id |-> <<>>, id_state |-> "normal",
     entry_name |-> <<>>, entry_dept |-> <<>>, entry_role |-> <<>>,
     listbox |-> <<>>, dept_values |-> DeptValues, ev |-> NoEvent]

\* get_fields: the record read from the entries
FieldsOf(a) ==
    [id |-> Strip(a.entry_id), name |-> SmartTitle(a.entry_name),
     department |-> SmartTitle(a.entry_dept), role |-> SmartTitle(a.entry_role)]

\* get_fields: a department not yet offered is appended to dept_values
GetFields(a) ==
    IF /\ FieldsOf(a).department # <<>>
       /\ \A k \in 1..Len(a.dept_values) : a.dept_values[k] # FieldsOf(a).department
    THEN [a EXCEPT !.dept_values = Append(a.dept_values, FieldsOf(a).department)]
    ELSE a

\* clear_fields that leaves selected_id as it is.
ClearFieldsKeepingSelection(a) ==
    [a EXCEPT !.id_state = "normal", !.entry_id = <<>>, !.entry_name = <<>>,
              !.entry_dept = <<>>, !.entry_role = <<>>]

\* clear_fields
ClearFields(a) ==
    [a EXCEPT !.id_state = "normal", !.entry_id = <<>>, !.entry_name = <<>>,
              !.entry_dept = <<>>, !.entry_role = <<>>, !.selected_id = NoneStr]

\* not emp["id"] or not emp["name"] or not emp["department"] or not emp["role"]
SomeFieldEmpty(emp) ==
    emp.id = <<>> \/ emp.name = <<>> \/ emp.department = <<>> \/ emp.role = <<>>

\* not emp["id"].isdigit() or len(emp["id"]) != 6
InvalidId(emp) == ~IsDigit(emp.id) \/ Len(emp.id) # IdLen

-----------------------------------------------------------------------------
(* Callers' inputs *)

\* Most records the store is grown to.
MaxRecs == 2

\* Ids passed to the Store: plain, with surrounding whitespace, empty.
IdArgs == {<<"1">>, <<"2">>, <<SP, "1">>, <<>>}

\* Names: plain; untrimmed and needing CSV quoting.
NameArgs == {<<"a">>, <<DQ, "b", SP>>}

\* Records passed to the Store, with and without the id key.
RecordArgs ==
    {[id |-> i, name |-> n, department |-> <<"d">>, role |-> <<"r">>] :
        i \in IdArgs, n \in NameArgs}
    \cup {[name |-> n, department |-> <<"d">>, role |-> <<"r">>] : n \in NameArgs}

-----------------------------------------------------------------------------
(* Store calls run one at a time *)

NoCall == [op |-> "none", id |-> NoneStr, rec |-> NoneDict, ok |-> TRUE,
           msg |-> "", saved |-> FALSE, pre |-> Absent]

Called(op, emp_id, rec, out, pre) ==
    [op |-> op, id |-> emp_id, rec |-> rec, ok |-> out.ok, msg |-> out.msg,
     saved |-> out.saved, pre |-> pre]

NotSaving == pc = "idle" /\ tmp = Absent

\* The reader has not loaded yet.
NoSeen == [loaded |-> FALSE, emps |-> <<>>]

\* Processes calling the Store on the same backing file.
Callers == {"A", "B"}

\* No call of the other process ended while this one was between its load and
\* its save.
NoMet == [op |-> "none", id |-> NoneStr, rec |-> NoneDict, ok |-> TRUE, pre |-> Absent]

\* A process that is in no Store call.
NoCaller ==
    [pc |-> "idle", op |-> "none", id |-> NoneStr, rec |-> NoneDict,
     out |-> Outcome(TRUE, "", FALSE, Absent), pre |-> Absent, met |-> NoMet]

NoCallers == [c \in Callers |-> NoCaller]

Init ==
    /\ file \in {Absent, <<>>}
    /\ tmp = Absent
    /\ last = NoCall
    /\ pc = "idle"
    /\ job = <<>>
    /\ written = 0
    /\ old = Absent
    /\ seen = NoSeen
    /\ callers = NoCallers
    /\ app = NewApp

\* load_employees called on its own.
Load ==
    /\ NotSaving
    /\ file' = EnsureDataFile(file)
    /\ last' = Called("load", NoneStr, NoneDict, Outcome(TRUE, "", FALSE, file'), file)
    /\ UNCHANGED <<tmp, pc, job, written, old, seen, callers, app>>

\* add_employee(emp_dict); the store is grown to MaxRecs records at most.
Add ==
    /\ NotSaving
    /\ \E employees \in {LoadEmployees(file)} :
        \E emp_dict \in RecordArgs :
            \E out \in {AddEmployee(employees, emp_dict, file)} :
                /\ out.ok => Len(employees) < MaxRecs
                /\ file' = out.file
                /\ last' = Called("add", NoneStr, emp_dict, out, file)
    /\ UNCHANGED <<tmp, pc, job, written, old, seen, callers, app>>

\* delete_employee(emp_id)
Delete ==
    /\ NotSaving
    /\ \E employees \in {LoadEmployees(file)} :
        \E emp_id \in IdArgs :
            \E out \in {DeleteEmployee(employees, emp_id, file)} :
                /\ file' = out.file
                /\ last' = Called("delete", emp_id, NoneDict, out, file)
    /\ UNCHANGED <<tmp, pc, job, written, old, seen, callers, app>>

\* update_employee(emp_id, updated_dict)
Update ==
    /\ NotSaving
    /\ \E employees \in {LoadEmployees(file)} :
        \E emp_id \in IdArgs, updated_dict \in RecordArgs :
            \E out \in {UpdateEmployee(employees, emp_id, updated_dict, file)} :
                /\ file' = out.file
                /\ last' = Called("update", emp_id, updated_dict, out, file)
    /\ UNCHANGED <<tmp, pc, job, written, old, seen, callers, app>>

Next == Load \/ Add \/ Delete \/ Update

Spec == Init /\ [][Next]_vars

-----------------------------------------------------------------------------
(* save(load()) on file contents of any shape *)

\* Longest hand-written file content tried.
MaxText == 4

Chars == {"1", SP, COMMA, DQ, CR, LF}

\* Every text of at most n characters.
RECURSIVE Texts(_)
Texts(n) ==
    IF n = 0 THEN {<<>>}
    ELSE Texts(n - 1) \cup {Append(t, c) : t \in {u \in Texts(n - 1) : Len(u) = n - 1}, c \in Chars}

\* Field values saved: empty, plain, untrimmed, needing quotes, holding a
\* line break.
FieldArgs == {<<>>, <<"1">>, <<SP, "1", LF>>, <<DQ, COMMA>>, <<"1", CR, LF, "1">>}

SavedRecordArgs ==
    {[id |-> i, name |-> n, department |-> <<>>, role |-> <<"1">>] :
        i \in FieldArgs, n \in FieldArgs}
    \cup {[name |-> n, department |-> <<>>, role |-> <<"1">>] : n \in FieldArgs}

\* Every list of at most n of the records in R.
RECURSIVE Lists(_, _)
Lists(R, n) ==
    IF n = 0 THEN {<<>>}
    ELSE Lists(R, n - 1) \cup {Append(l, r) : l \in {m \in Lists(R, n - 1) : Len(m) = n - 1}, r \in R}

\* The backing file holds any short text, or what a save of some list wrote.
InitRT ==
    /\ file \in Texts(MaxText) \cup {AtomicSaveEmployees(l) : l \in Lists(SavedRecordArgs, MaxRecs)}
    /\ tmp = Absent
    /\ last = NoCall
    /\ pc = "idle"
    /\ job = <<>>
    /\ written = 0
    /\ old = Absent
    /\ seen = NoSeen
    /\ callers = NoCallers
    /\ app = NewApp

\* atomic_save_employees(load_employees())
RoundTrip ==
    /\ NotSaving
    /\ \E employees \in {LoadEmployees(file)} :
        /\ file' = AtomicSaveEmployees(employees)
        /\ job' = employees
        /\ last' = Called("roundtrip", NoneStr, NoneDict,
                          Outcome(TRUE, "", TRUE, file'), file)
    /\ UNCHANGED <<tmp, pc, written, old, seen, callers, app>>

NextRT == RoundTrip

SpecRT == InitRT /\ [][NextRT]_vars

-----------------------------------------------------------------------------
(* atomic_save_employees step by step, with crashes and a concurrent       *)
(* reader                                                                  *)

\* Records of the lists saved.
SaveRecordArgs ==
    {[id |-> <<"1">>, name |-> <<"a">>, department |-> <<"d">>, role |-> <<"r">>],
     [id |-> <<"2">>, name |-> <<DQ, "b", SP>>, department |-> <<"d">>, role |-> <<"r">>]}

InitSave ==
    /\ file = <<>>
    /\ tmp = Absent
    /\ last = NoCall
    /\ pc = "idle"
    /\ job = <<>>
    /\ written = 0
    /\ old = <<>>
    /\ seen = NoSeen
    /\ callers = NoCallers
    /\ app = NewApp

\* A caller enters atomic_save_employees(employees).
Begin ==
    /\ pc = "idle"
    /\ \E employees \in Lists(SaveRecordArgs, MaxRecs) : job' = employees
    /\ old' = file
    /\ written' = 0
    /\ seen' = NoSeen
    /\ pc' = "mkstemp"
    /\ UNCHANGED <<file, tmp, last, callers, app>>

\* tempfile.mkstemp in the backing file's directory, then os.close(fd): an
\* empty temp file exists.
Mkstemp ==
    /\ pc = "mkstemp"
    /\ tmp' = <<>>
    /\ pc' = "open"
    /\ UNCHANGED <<file, last, job, written, old, seen, callers, app>>

\* open(tmpname, 'w') and csv.writer(f)
OpenTmp ==
    /\ pc = "open"
    /\ tmp' = <<>>
    /\ pc' = "write"
    /\ UNCHANGED <<file, last, job, written, old, seen, callers, app>>

\* One turn of the writer loop; the row may reach the temp file at once.
WriteOne ==
    /\ pc = "write"
    /\ written < Len(job)
    /\ tmp' = tmp \o EmployeeRow(job[written + 1])
    /\ written' = written + 1
    /\ UNCHANGED <<file, last, pc, job, old, seen, callers, app>>

\* The loop is over and the with block closes the temp file.
CloseTmp ==
    /\ pc = "write"
    /\ written = Len(job)
    /\ pc' = "move"
    /\ UNCHANGED <<file, tmp, last, job, written, old, seen, callers, app>>

\* shutil.move, os.rename succeeding: the temp file atomically becomes the
\* backing file.
MoveRename ==
    /\ pc = "move"
    /\ file' = tmp
    /\ tmp' = Absent
    /\ pc' = "finally"
    /\ UNCHANGED <<last, job, written, old, seen, callers, app>>

\* shutil.move, os.rename raising OSError: where renaming onto an existing
\* file is refused (os.rename on Windows raises FileExistsError), shutil.move
\* falls back to copy_function(src, dst) and os.unlink(src).
MoveRenameRefused ==
    /\ pc = "move"
    /\ file # Absent
    /\ pc' = "copy_open"
    /\ UNCHANGED <<file, tmp, last, job, written, old, seen, callers, app>>

\* copy2 -> copyfile: open(dst, 'wb') truncates the backing file.
CopyOpen ==
    /\ pc = "copy_open"
    /\ file' = <<>>
    /\ pc' = "copy_write"
    /\ UNCHANGED <<tmp, last, job, written, old, seen, callers, app>>

\* copyfile writes the temp file's content (one buffer) into the backing file.
CopyWrite ==
    /\ pc = "copy_write"
    /\ file' = tmp
    /\ pc' = "copy_unlink"
    /\ UNCHANGED <<tmp, last, job, written, old, seen, callers, app>>

\* os.unlink(src) ends the fallback.
CopyUnlink ==
    /\ pc = "copy_unlink"
    /\ tmp' = Absent
    /\ pc' = "finally"
    /\ UNCHANGED <<file, last, job, written, old, seen, callers, app>>

\* An error is raised inside the with block: open(tmpname, 'w') fails, or
\* writer.writerow or the closing flush fails with some rows written.  The
\* exception leaves the try block through finally.
WriteRaises ==
    /\ pc \in {"open", "write"}
    /\ pc' = "raised_write"
    /\ UNCHANGED <<file, tmp, last, job, written, old, seen, callers, app>>

\* shutil.move raises: os.rename was refused and the fallback copy fails on
\* opening the backing file or while writing into it.
MoveRaises ==
    /\ pc \in {"copy_open", "copy_write"}
    /\ pc' = "raised_move"
    /\ UNCHANGED <<file, tmp, last, job, written, old, seen, callers, app>>

\* What the call ends with: nothing raised, or the step that raised.
Raised ==
    CASE pc = "raised_write" -> "write"
      [] pc = "raised_move" -> "move"
      [] OTHER -> ""

\* A finally block that leaves the temp file behind.
FinallyKeepsTmp ==
    /\ pc \in {"finally", "raised_write", "raised_move"}
    /\ pc' = "idle"
    /\ last' = Called("save", NoneStr, NoneDict,
                      Outcome(Raised = "", Raised, Raised = "", file), old)
    /\ UNCHANGED <<file, tmp, job, written, old, seen, callers, app>>

\* finally: the temp file is removed if it still exists; the call returns or
\* the pending exception goes on to the caller.
Finally ==
    /\ pc \in {"finally", "raised_write", "raised_move"}
    /\ tmp' = Absent
    /\ pc' = "idle"
    /\ last' = Called("save", NoneStr, NoneDict,
                      Outcome(Raised = "", Raised, Raised = "", file), old)
    /\ UNCHANGED <<file, job, written, old, seen, callers, app>>

\* The process dies inside atomic_save_employees; nothing more of it runs.
Crash ==
    /\ pc \notin {"idle", "crashed"}
    /\ pc' = "crashed"
    /\ UNCHANGED <<file, tmp, last, job, written, old, seen, callers, app>>

\* Another process calls load_employees.
ReaderLoad ==
    /\ file' = EnsureDataFile(file)
    /\ seen' = [loaded |-> TRUE, emps |-> LoadEmployees(file)]
    /\ UNCHANGED <<tmp, last, pc, job, written, old, callers, app>>

NextSave ==
    \/ Begin
    \/ Mkstemp
    \/ OpenTmp
    \/ WriteOne
    \/ CloseTmp
    \/ MoveRename
    \/ MoveRenameRefused
    \/ CopyOpen
    \/ CopyWrite
    \/ CopyUnlink
    \/ WriteRaises
    \/ MoveRaises
    \/ Finally
    \/ Crash
    \/ ReaderLoad

SpecSave == InitSave /\ [][NextSave]_vars

-----------------------------------------------------------------------------
(* load_employees after atomic_save_employees(s), s of trimmed records     *)

\* Trimmed field values: empty, plain, needing quotes, holding a line break.
TrimmedFieldArgs == {f \in FieldArgs : Strip(f) = f}

\* Records of four trimmed fields, the all-empty record among them.
TrimmedRecordArgs ==
    {[id |-> i, name |-> n, department |-> <<>>, role |-> r] :
        i \in TrimmedFieldArgs, n \in {<<>>, <<DQ, COMMA>>}, r \in {<<>>, <<"1">>}}

\* The caller holds any list s of such records.
InitSL ==
    /\ file \in {Absent, <<>>}
    /\ tmp = Absent
    /\ last = NoCall
    /\ pc = "idle"
    /\ job \in Lists(TrimmedRecordArgs, MaxRecs)
    /\ written = 0
    /\ old = Absent
    /\ seen = NoSeen
    /\ callers = NoCallers
    /\ app = NewApp

\* atomic_save_employees(s), then load_employees()
SaveThenLoad ==
    /\ NotSaving
    /\ file' = AtomicSaveEmployees(job)
    /\ seen' = [loaded |-> TRUE, emps |-> LoadEmployees(file')]
    /\ last' = Called("save_load", NoneStr, NoneDict,
                      Outcome(TRUE, "", TRUE, file'), file)
    /\ UNCHANGED <<tmp, pc, job, written, old, callers, app>>

NextSL == SaveThenLoad

SpecSL == InitSL /\ [][NextSL]_vars

-----------------------------------------------------------------------------
(* Two processes calling the Store with no lock: each call loads, decides, *)
(* and saves later; the other process may run in between                   *)

RaceRecordArgs ==
    {[id |-> i, name |-> <<"a">>, department |-> <<"d">>, role |-> <<"r">>] :
        i \in {<<"1">>, <<"2">>, <<SP, "1">>}}

\* The calls made: add_employee(rec), delete_employee(id),
\* update_employee(id, rec).
RaceCalls ==
    {[op |-> "add", id |-> NoneStr, rec |-> r] : r \in RaceRecordArgs}
    \cup {[op |-> "delete", id |-> i, rec |-> NoneDict] : i \in {<<"1">>, <<"2">>}}
    \cup {[op |-> "update", id |-> i, rec |-> r] :
            i \in {<<"1">>, <<"2">>},
            r \in {a \in RaceRecordArgs : a.id \in {<<"1">>, <<"2">>}}}

\* What the call returns, and the content it saves, from the list it loaded.
Apply(call, employees, f) ==
    CASE call.op = "add" -> AddEmployee(employees, call.rec, f)
      [] call.op = "delete" -> DeleteEmployee(employees, call.id, f)
      [] call.op = "update" -> UpdateEmployee(employees, call.id, call.rec, f)

InitRace ==
    /\ file \in {Absent, <<>>}
    /\ tmp = Absent
    /\ last = NoCall
    /\ pc = "idle"
    /\ job = <<>>
    /\ written = 0
    /\ old = Absent
    /\ seen = NoSeen
    /\ callers = NoCallers
    /\ app = NewApp

\* The call of process c, as the other process met it.
Summary(r) == [op |-> r.op, id |-> r.id, rec |-> r.rec, ok |-> r.out.ok, pre |-> r.pre]

\* Process c's call ends with record r: a process between its load and its
\* save has met it, an earlier ended call is forgotten.
Completed(c, r) ==
    [d \in Callers |->
        IF d = c THEN r
        ELSE IF callers[d].pc = "loaded"
             THEN [callers[d] EXCEPT !.met = Summary(r)]
             ELSE NoCaller]

\* Process c enters a Store call: load_employees, then the lookups.  A call
\* that is refused returns here; one that goes on holds the list to save.
CallLoad(c) ==
    /\ NotSaving
    /\ callers[c].pc # "loaded"
    /\ \E employees \in {LoadEmployees(file)} :
        \E call \in RaceCalls :
            \E out \in {Apply(call, employees, file)} :
                /\ (out.saved /\ call.op = "add") => Len(employees) < MaxRecs
                /\ callers' =
                     IF out.saved
                     THEN [callers EXCEPT ![c] =
                             [pc |-> "loaded", op |-> call.op, id |-> call.id,
                              rec |-> call.rec, out |-> out, pre |-> file,
                              met |-> NoMet]]
                     ELSE Completed(c, [pc |-> "done", op |-> call.op,
                                        id |-> call.id, rec |-> call.rec,
                                        out |-> out, pre |-> file, met |-> NoMet])
    /\ file' = EnsureDataFile(file)
    /\ UNCHANGED <<tmp, last, pc, job, written, old, seen, app>>

\* A save that loads again and redoes the change on what is stored now.
CallSaveReloading(c) ==
    /\ NotSaving
    /\ callers[c].pc = "loaded"
    /\ file' = Apply(callers[c], LoadEmployees(file), file).file
    /\ old' = file
    /\ callers' = Completed(c, [callers[c] EXCEPT !.pc = "done"])
    /\ UNCHANGED <<tmp, last, pc, job, written, seen, app>>

\* Process c's atomic_save_employees of the list it loaded and changed; the
\* call returns.
CallSave(c) ==
    /\ NotSaving
    /\ callers[c].pc = "loaded"
    /\ file' = callers[c].out.file
    /\ old' = file
    /\ callers' = Completed(c, [callers[c] EXCEPT !.pc = "done"])
    /\ UNCHANGED <<tmp, last, pc, job, written, seen, app>>

NextRace ==
    \/ \E c \in Callers : CallLoad(c)
    \/ \E c \in Callers : CallSave(c)

SpecRace == InitRace /\ [][NextRace]_vars

-----------------------------------------------------------------------------
(* gui.py: one user working in the EmployeeApp window, from an empty store *)

\* Ids typed: two of six decimal digits, one of six superscript digits.
Id1 == <<"1", "1", "1", "1", "1", "1">>

Id2 == <<"2", "2", "2", "2", "2", "2">>

IdSup == <<SUP2, SUP2, SUP2, SUP2, SUP2, SUP2>>

\* What the user types into the four entries: a padded id; a second id; a
\* role holding ") | "; a short id; an empty name; nothing.
FormArgs ==
    {[id |-> <<SP>> \o Id1, name |-> <<"a">>, department |-> <<"h", "r">>, role |-> <<"r">>],
     [id |-> Id2, name |-> <<"b", SP, "a">>, department |-> <<"h", "r">>, role |-> <<"r">>],
     [id |-> IdSup, name |-> <<"a">>, department |-> <<"h", "r">>,
      role |-> <<"r", ")", SP, "|", SP, "r">>],
     [id |-> <<"1">>, name |-> <<"a">>, department |-> <<"h", "r">>, role |-> <<"r">>],
     [id |-> Id1, name |-> <<>>, department |-> <<"h", "r">>, role |-> <<"r">>],
     [id |-> <<>>, name |-> <<>>, department |-> <<>>, role |-> <<>>]}

\* __init__ has run over an empty store: refresh_list has loaded it.
InitGui ==
    /\ file = <<>>
    /\ tmp = Absent
    /\ last = NoCall
    /\ pc = "idle"
    /\ job = <<>>
    /\ written = 0
    /\ old = Absent
    /\ seen = NoSeen
    /\ callers = NoCallers
    /\ app = NewApp

\* The user types into the entries; a disabled id entry takes no input.
Type ==
    /\ \E f \in FormArgs :
        app' = [app EXCEPT
                  !.entry_id = IF app.id_state = "normal" THEN f.id ELSE @,
                  !.entry_name = f.name,
                  !.entry_dept = f.department,
                  !.entry_role = f.role,
                  !.ev = Event("type", app.selected_id, "none", NoneStr, NoneDict, FALSE)]
    /\ UNCHANGED <<file, tmp, last, pc, job, written, old, seen, callers>>

\* The three unpackings of on_select; ok is false when one of them raises
\* ValueError.
ParseRow(first, second, third) ==
    [ok |-> Len(first) = 2 /\ Len(second) = 2 /\ Len(third) = 2,
     id |-> first[1], name |-> second[1], department |-> third[1],
     role |-> third[Len(third)]]

\* department, role = rest.split(") | ")
ParseDepartment(first, second) ==
    ParseRow(first, second, SplitAll(second[Len(second)], <<")", SP, "|", SP>>))

\* name, rest = rest.split(" (", 1)
ParseName(first) == ParseDepartment(first, SplitOnce(first[Len(first)], <<SP, "(">>))

\* emp_id, rest = text.split(" - ", 1)
ParseText(text) == ParseName(SplitOnce(text, <<SP, "-", SP>>))

\* on_select: a <<ListboxSelect>> event with row i selected, or with no row
\* selected (i = 0).
OnSelect ==
    /\ \E i \in 0..Len(app.listbox) :
        IF i = 0
        THEN app' = [app EXCEPT !.ev = Event("on_select", app.selected_id, "none",
                                             NoneStr, NoneDict, FALSE)]
        ELSE \E p \in {ParseText(app.listbox[i])} :
            app' = IF p.ok
                   THEN [app EXCEPT
                           !.entry_id = p.id, !.id_state = "disabled",
                           !.entry_name = p.name, !.entry_dept = p.department,
                           !.entry_role = p.role, !.selected_id = p.id,
                           !.ev = Event("on_select", app.selected_id, "none",
                                        NoneStr, NoneDict, TRUE)]
                   ELSE [app EXCEPT !.ev = Event("on_select", app.selected_id, "none",
                                                 NoneStr, NoneDict, FALSE)]
    /\ UNCHANGED <<file, tmp, last, pc, job, written, old, seen, callers>>

\* on_add
OnAdd ==
    /\ \E a \in {GetFields(app)} :
        \E emp \in {FieldsOf(app)} :
            IF SomeFieldEmpty(emp) \/ InvalidId(emp)
            THEN /\ app' = [a EXCEPT !.ev = Event("on_add", app.selected_id, "none",
                                                  NoneStr, NoneDict, FALSE)]
                 /\ file' = file
            ELSE \E employees \in {LoadEmployees(file)} :
                \E out \in {AddEmployee(employees, emp, file)} :
                    /\ out.ok => Len(employees) < MaxRecs
                    /\ file' = out.file
                    /\ app' =
                        IF out.ok
                        THEN ClearFields([a EXCEPT
                                !.listbox = Rows(LoadEmployees(out.file)),
                                !.ev = Event("on_add", app.selected_id, "add",
                                             NoneStr, emp, TRUE)])
                        ELSE [a EXCEPT !.ev = Event("on_add", app.selected_id, "add",
                                                    NoneStr, emp, FALSE)]
    /\ UNCHANGED <<tmp, last, pc, job, written, old, seen, callers>>

\* on_update; yes is the answer to the confirm dialog when it is shown
OnUpdate ==
    /\ IF app.selected_id = NoneStr \/ app.selected_id = <<>>
       THEN /\ app' = [app EXCEPT !.ev = Event("on_update", app.selected_id, "none",
                                               NoneStr, NoneDict, FALSE)]
            /\ file' = file
       ELSE \E a \in {GetFields(app)} :
           \E emp \in {FieldsOf(app)} :
               \E yes \in BOOLEAN :
                   IF SomeFieldEmpty(emp) \/ InvalidId(emp) \/ ~yes
                   THEN /\ app' = [a EXCEPT !.ev = Event("on_update", app.selected_id,
                                                         "none", NoneStr, NoneDict, FALSE)]
                        /\ file' = file
                   ELSE \E employees \in {LoadEmployees(file)} :
                       \E out \in {UpdateEmployee(employees, app.selected_id, emp, file)} :
                           /\ file' = out.file
                           /\ app' =
                               IF out.ok
                               THEN ClearFields([a EXCEPT
                                       !.listbox = Rows(LoadEmployees(out.file)),
                                       !.ev = Event("on_update", app.selected_id,
                                                    "update", app.selected_id, emp, TRUE)])
                               ELSE [a EXCEPT !.ev = Event("on_update", app.selected_id,
                                                           "update", app.selected_id, emp, FALSE)]
    /\ UNCHANGED <<tmp, last, pc, job, written, old, seen, callers>>

\* on_delete; yes is the answer to the confirm dialog when it is shown
OnDelete ==
    /\ IF app.selected_id = NoneStr \/ app.selected_id = <<>>
       THEN /\ app' = [app EXCEPT !.ev = Event("on_delete", app.selected_id, "none",
                                               NoneStr, NoneDict, FALSE)]
            /\ file' = file
       ELSE \E yes \in BOOLEAN :
           IF ~yes
           THEN /\ app' = [app EXCEPT !.ev = Event("on_delete", app.selected_id, "none",
                                                   NoneStr, NoneDict, FALSE)]
                /\ file' = file
           ELSE \E employees \in {LoadEmployees(file)} :
               \E out \in {DeleteEmployee(employees, app.selected_id, file)} :
                   /\ file' = out.file
                   /\ app' = ClearFields([app EXCEPT
                                !.listbox = Rows(LoadEmployees(out.file)),
                                !.ev = Event("on_delete", app.selected_id, "delete",
                                             app.selected_id, NoneDict, out.ok)])
    /\ UNCHANGED <<tmp, last, pc, job, written, old, seen, callers>>

\* The tests of the on_search loop: an employee is kept when every query
\* that is not empty matches.
Matches(e, id_q, name_q, dept_q, role_q) ==
    /\ id_q = <<>> \/ id_q = e.id
    /\ name_q = <<>> \/ Contains(Lower(e.name), name_q)
    /\ dept_q = <<>> \/ Contains(Lower(e.department), dept_q)
    /\ role_q = <<>> \/ Contains(Lower(e.role), role_q)

\* on_search
OnSearch ==
    /\ \E employees \in {LoadEmployees(file)} :
        app' = [app EXCEPT
                  !.listbox = Rows(SelectSeq(employees, LAMBDA e :
                      Matches(e, Strip(app.entry_id), Lower(Strip(app.entry_name)),
                              Lower(Strip(app.entry_dept)), Lower(Strip(app.entry_role))))),
                  !.ev = Event("on_search", app.selected_id, "none", NoneStr, NoneDict, FALSE)]
    /\ file' = EnsureDataFile(file)
    /\ UNCHANGED <<tmp, last, pc, job, written, old, seen, callers>>

\* refresh_list, from the Refresh button
RefreshList ==
    /\ app' = [app EXCEPT
                 !.listbox = Rows(LoadEmployees(file)),
                 !.ev = Event("refresh_list", app.selected_id, "none", NoneStr, NoneDict, FALSE)]
    /\ file' = EnsureDataFile(file)
    /\ UNCHANGED <<tmp, last, pc, job, written, old, seen, callers>>

NextGui ==
    \/ Type
    \/ OnSelect
    \/ OnAdd
    \/ OnUpdate
    \/ OnDelete
    \/ OnSearch
    \/ RefreshList

SpecGui == InitGui /\ [][NextGui]_vars

-----------------------------------------------------------------------------
(* Properties of the Store calls.  Stored is what load_employees returns   *)
(* now, Before what it returned when the last call began.  A record passed *)
(* in is compared with a loaded one in the form it is persisted in: four   *)
(* keys, each value stripped, a missing key empty.                         *)

Stored == LoadEmployees(file)

Before == LoadEmployees(last.pre)

StoredForm(rec) ==
    [k \in {FIELDNAMES[i] : i \in 1..NFields} |-> Strip(Get(rec, k, <<>>))]

HasId(emps, emp_id) == \E i \in 1..Len(emps) : emps[i].id = emp_id

\* s with its k-th element removed
RemoveAt(s, k) == SubSeq(s, 1, k - 1) \o SubSeq(s, k + 1, Len(s))

\* C1: after any sequence of add, update and delete calls from an empty
\* backing file, the loaded collection holds at most one record per id.
C1_AtMostOnePerId ==
    \A i, j \in 1..Len(Stored) : i # j => Stored[i].id # Stored[j].id

\* C2 as stated: an add whose record's id equals no stored id returns success,
\* and a load then gives the previous records in order followed by the new
\* record, which appears exactly once.
C2_AddOfUnstoredId ==
    (last.op = "add" /\ "id" \in DOMAIN last.rec /\ ~HasId(Before, last.rec.id))
    => /\ last.ok
       /\ Stored = Append(Before, StoredForm(last.rec))
       /\ Cardinality({i \in 1..Len(Stored) : Stored[i] = StoredForm(last.rec)}) = 1

\* C2 amended: an add whose record's id, stripped of surrounding whitespace (a
\* missing id counting as empty), equals no stored id returns success, and a
\* load then gives the previous records in order followed by the new record
\* as persisted, which appears exactly once.
C2_AddOfUnstoredStrippedId ==
    (last.op = "add" /\ ~HasId(Before, Strip(Get(last.rec, "id", <<>>))))
    => /\ last.ok
       /\ last.msg = "Added"
       /\ Stored = Append(Before, StoredForm(last.rec))
       /\ Cardinality({i \in 1..Len(Stored) : Stored[i] = StoredForm(last.rec)}) = 1

\* An add of an untrimmed record with a new id to a store that holds a record.
C2_Witness ==
    /\ last.op = "add"
    /\ ~HasId(Before, Strip(Get(last.rec, "id", <<>>)))
    /\ Len(Before) >= 1
    /\ last.rec # StoredForm(last.rec)
    /\ last.ok

\* C3: an add whose record's id a stored record already has returns
\* (False, "ID already exists") and leaves the backing file's content exactly
\* as it was.
C3_AddOfStoredId ==
    (last.op = "add" /\ "id" \in DOMAIN last.rec /\ HasId(Before, last.rec.id))
    => /\ ~last.ok
       /\ last.msg = "ID already exists"
       /\ ~last.saved
       /\ file = last.pre

\* A refused add on a store of two records, the second of which has the id.
C3_Witness ==
    /\ last.op = "add"
    /\ "id" \in DOMAIN last.rec
    /\ Len(Before) = 2
    /\ Before[2].id = last.rec.id
    /\ ~last.ok

\* C4: a delete with the id of a stored record returns success and leaves the
\* previous collection with exactly that one record removed, the others
\* unchanged and in order.
C4_DeleteRemovesExactlyOne ==
    (last.op = "delete" /\ HasId(Before, last.id))
    => /\ last.ok
       /\ \E k \in 1..Len(Before) :
            Before[k].id = last.id /\ Stored = RemoveAt(Before, k)

\* C5: a delete or update with an id no stored record has returns
\* (False, "ID not found"), saves nothing and leaves the collection unchanged.
C5_NotFound ==
    (last.op \in {"delete", "update"} /\ ~HasId(Before, last.id))
    => /\ ~last.ok
       /\ last.msg = "ID not found"
       /\ ~last.saved
       /\ Stored = Before
       /\ file = EnsureDataFile(last.pre)

\* An update refused for an id that differs from a stored one only by
\* surrounding whitespace.
C5_Witness ==
    /\ last.op = "update"
    /\ ~HasId(Before, last.id)
    /\ HasId(Before, Strip(last.id))
    /\ ~last.ok

\* C6: a successful update keeps the length, puts the new record (as
\* persisted) at the index of the record that had the old id and leaves every
\* other record at its index; when the id changes to a value no other record
\* has, no record with the old id remains.
C6_UpdateInPlace ==
    (last.op = "update" /\ last.ok)
    => /\ Len(Stored) = Len(Before)
       /\ \E k \in 1..Len(Before) :
            /\ Before[k].id = last.id
            /\ Stored[k] = StoredForm(last.rec)
            /\ \A j \in 1..Len(Before) : j # k => Stored[j] = Before[j]
            /\ (/\ StoredForm(last.rec).id # last.id
                /\ \A j \in 1..Len(Before) :
                     j # k => Before[j].id # StoredForm(last.rec).id)
               => ~HasId(Stored, last.id)

\* C7: an update of an existing id whose new record's id differs from it and
\* equals another stored record's id returns (False, "Target ID already
\* exists") and leaves the store unchanged.
C7_UpdateToStoredId ==
    (/\ last.op = "update"
     /\ HasId(Before, last.id)
     /\ "id" \in DOMAIN last.rec
     /\ last.rec.id # last.id
     /\ HasId(Before, last.rec.id))
    => /\ ~last.ok
       /\ last.msg = "Target ID already exists"
       /\ ~last.saved
       /\ Stored = Before
       /\ file = last.pre

\* A refused update of the second record to the first record's id.
C7_Witness ==
    /\ last.op = "update"
    /\ Len(Before) = 2
    /\ Before[2].id = last.id
    /\ "id" \in DOMAIN last.rec
    /\ last.rec.id # last.id
    /\ Before[1].id = last.rec.id
    /\ ~last.ok

-----------------------------------------------------------------------------
(* Properties of save(load()) and of the stepwise save *)

\* What a save of some list of records with four stripped fields writes.
StrippedRecordArgs == {r \in SavedRecordArgs : r = StoredForm(r)}

StrippedSaves == {AtomicSaveEmployees(l) : l \in Lists(StrippedRecordArgs, MaxRecs)}

\* C8 as stated: for every backing file content, save(load()) leaves the
\* content as it was.
C8_RoundTripNoOp == last.op = "roundtrip" => file = last.pre

\* C8 amended: for every backing file content that a save wrote from records
\* with four stripped fields, save(load()) leaves the content as it was.
C8_RoundTripOfStrippedSave ==
    (last.op = "roundtrip" /\ last.pre \in StrippedSaves) => file = last.pre

\* A round trip of a saved file of two records, one with a quoted field.
C8_Witness ==
    /\ last.op = "roundtrip"
    /\ last.pre \in StrippedSaves
    /\ Len(job) = 2
    /\ \E i \in 1..Len(last.pre) : last.pre[i] = DQ
    /\ file = last.pre

\* C9: a save interrupted at any step leaves the backing file holding the
\* complete old content or the complete new content.
C9_CrashLeavesOldOrNew ==
    pc = "crashed" => file \in {old, AtomicSaveEmployees(job)}

\* C10: every load_employees of a reader running beside a save returns the
\* complete collection from before the save or the complete collection being
\* saved.
C10_ReaderSeesOldOrNew ==
    seen.loaded =>
        seen.emps \in {LoadEmployees(old), LoadEmployees(AtomicSaveEmployees(job))}

\* C11: whenever atomic_save_employees has returned, normally or with an
\* error raised in the write or the replace step, no temp file of the call
\* is left; when the error was raised in the write step, before the replace,
\* the backing file is what it was when the call began.
C11_NoTempFileLeft ==
    (pc = "idle" /\ last.op = "save") =>
        /\ tmp = Absent
        /\ (last.msg = "write" => file = last.pre)

\* A save of a non-empty list over a non-empty file raised in the write step
\* with a row already in the temp file.
C11_Witness ==
    /\ pc = "idle"
    /\ last.op = "save"
    /\ last.msg = "write"
    /\ written > 0
    /\ last.pre # <<>>

\* C12: for every list s of records whose four fields are trimmed strings,
\* load_employees after atomic_save_employees(s) returns the records of s:
\* same length, same order, same field values.
C12_LoadAfterSave ==
    last.op = "save_load" =>
        /\ Len(seen.emps) = Len(job)
        /\ \A k \in 1..Len(job) : seen.emps[k] = job[k]

\* Two records were saved and loaded, the all-empty record and one with a
\* field holding a line break.
C12_Witness ==
    /\ last.op = "save_load"
    /\ Len(job) = 2
    /\ \E k \in 1..2 : \A f \in DOMAIN job[k] : job[k][f] = <<>>
    /\ \E k \in 1..2 : job[k].id = <<"1", CR, LF, "1">>
    /\ seen.emps = job

\* C13: a call on an absent backing file creates it empty and sees the empty
\* collection: load_employees returns no record, and the first add, update
\* or delete ends as it does on an empty file (the add succeeds, update and
\* delete fail with "ID not found").
C13_AbsentFileIsEmptyStore ==
    (last.op \in {"load", "add", "update", "delete"} /\ last.pre = Absent) =>
        /\ Before = <<>>
        /\ file # Absent
        /\ last.op = "load" => file = <<>>
        /\ last.op = "add" =>
            /\ last.ok
            /\ last.msg = "Added"
            /\ file = AddEmployee(LoadEmployees(<<>>), last.rec, <<>>).file
            /\ Stored = <<StoredForm(last.rec)>>
        /\ last.op \in {"update", "delete"} =>
            /\ ~last.ok
            /\ last.msg = "ID not found"
            /\ file = <<>>

\* The first call on an absent file was a delete.
C13_Witness ==
    /\ last.op = "delete"
    /\ last.pre = Absent
    /\ last.msg = "ID not found"
    /\ file = <<>>

\* The rows of a file that hold at least one field.
NonEmptyRows(f) == SelectSeq(CsvRows(EnsureDataFile(f)), LAMBDA row : row # <<>>)

InterleavedAdds(r) ==
    /\ r.pc = "done"
    /\ r.op = "add"
    /\ r.met.op = "add"
    /\ EnsureDataFile(r.pre) = EnsureDataFile(r.met.pre)

\* Both adds returned success and the file holds what they loaded plus one
\* record, that of the add which saved last.
OneAddLost(r) ==
    /\ r.out.ok
    /\ r.met.ok
    /\ Stored = Append(LoadEmployees(r.pre), StoredForm(r.rec))
    /\ Cardinality({k \in 1..Len(Stored) :
            Stored[k] \in {StoredForm(r.rec), StoredForm(r.met.rec)}}) = 1

\* The ended call r succeeded with no call of the other process ending
\* inside it: it saved over the content it had loaded, and its effect is in
\* the store.
EffectPresent(r) ==
    (r.pc = "done" /\ r.met.op = "none" /\ r.out.ok) =>
        /\ LoadEmployees(old) = LoadEmployees(r.pre)
        /\ r.op = "add" => Stored = Append(LoadEmployees(old), StoredForm(r.rec))
        /\ r.op = "delete" =>
            /\ ~HasId(Stored, r.id)
            /\ Len(Stored) = Len(LoadEmployees(old)) - 1
        /\ r.op = "update" =>
            /\ \E k \in 1..Len(Stored) : Stored[k] = StoredForm(r.rec)
            /\ Len(Stored) = Len(LoadEmployees(old))

\* C15 as stated: two interleaved add_employee calls with distinct ids that
\* no stored record has both return success and the file ends with only one
\* of the two records; a successful call run on its own leaves its effect in
\* the store.
C15_LostUpdate ==
    \A c \in Callers :
        /\ (/\ InterleavedAdds(callers[c])
            /\ callers[c].rec.id # callers[c].met.rec.id
            /\ ~HasId(LoadEmployees(callers[c].pre), callers[c].rec.id)
            /\ ~HasId(LoadEmployees(callers[c].pre), callers[c].met.rec.id))
           => OneAddLost(callers[c])
        /\ EffectPresent(callers[c])

\* C15 amended: the same for distinct ids that, stripped of surrounding
\* whitespace, no stored record has.
C15_LostUpdateOfStrippedIds ==
    \A c \in Callers :
        /\ (/\ InterleavedAdds(callers[c])
            /\ callers[c].rec.id # callers[c].met.rec.id
            /\ ~HasId(LoadEmployees(callers[c].pre), Strip(callers[c].rec.id))
            /\ ~HasId(LoadEmployees(callers[c].pre), Strip(callers[c].met.rec.id)))
           => OneAddLost(callers[c])
        /\ EffectPresent(callers[c])

\* Two adds of ids "1" and "2" interleaved on an empty store: both returned
\* success and the record of the first to save is gone.
C15_Witness ==
    \E c \in Callers :
        /\ InterleavedAdds(callers[c])
        /\ Strip(callers[c].rec.id) # Strip(callers[c].met.rec.id)
        /\ callers[c].out.ok
        /\ callers[c].met.ok
        /\ Len(Stored) = 1
        /\ ~HasId(Stored, Strip(callers[c].met.rec.id))
        /\ LoadEmployees(old) = <<StoredForm(callers[c].met.rec)>>

\* A record as the window is meant to pass it: an id of exactly six decimal
\* digits, and a name, a department and a role that are not empty.
Validated(rec) ==
    /\ Len(rec.id) = IdLen
    /\ \A i \in 1..Len(rec.id) : rec.id[i] \in DecimalDigits
    /\ rec.name # <<>>
    /\ rec.department # <<>>
    /\ rec.role # <<>>

\* C16: on_add and on_update reach add_employee and update_employee only
\* with an id of exactly six decimal digits and a non-empty name, department
\* and role; so, from an empty store, after any sequence of actions in the
\* window every persisted record is of that form.
C16_OnlyValidatedRecords ==
    /\ app.ev.call \in {"add", "update"} => Validated(app.ev.rec)
    /\ \A k \in 1..Len(Stored) : Validated(Stored[k])

\* C17: whenever selected_id is not None a record with that id is stored;
\* on_update and on_delete entered with selected_id None make no Store call;
\* selected_id is None after every successful add or update and after every
\* confirmed delete.
C17_SelectionNeverStale ==
    /\ app.selected_id # NoneStr => HasId(Stored, app.selected_id)
    /\ (app.ev.handler \in {"on_update", "on_delete"} /\ app.ev.sel = NoneStr)
        => app.ev.call = "none"
    /\ (app.ev.call \in {"add", "update"} /\ app.ev.ok) => app.selected_id = NoneStr
    /\ app.ev.call = "delete" => app.selected_id = NoneStr

\* A confirmed delete of the selected record has left another record stored
\* and nothing selected.
C17_Witness ==
    /\ app.ev.handler = "on_delete"
    /\ app.ev.call = "delete"
    /\ app.ev.ok
    /\ app.ev.sel # NoneStr
    /\ ~HasId(Stored, app.ev.sel)
    /\ Len(Stored) = 1
    /\ app.selected_id = NoneStr

=============================================================================
